---- MODULE Spec2Model ----
(***************************************************************************)
(* Synchronisation of the BPF ipcache map (the Backing Table) with the     *)
(* in-memory IP-identity cache (the Authoritative Cache):                  *)
(*   - BPFListener.OnIPIdentityCacheChange, the change listener;           *)
(*   - BPFListener.garbageCollect with updateStaleEntriesFunction, the     *)
(*     periodic reconciliation sweep run by a controller.                  *)
(* The cache, the BPF map primitives and the key codec live in other       *)
(* packages; they are modelled by their interface.                         *)
(***************************************************************************)
EXTENDS Integers, FiniteSets, Sequences, TLC

\* ------------------------------------------------------------------ bounds
MaxIdentity == 2
MaxAddr == 2
\* queueSize of newListenerv1_0: the capacity of the listener's channel.
QueueSize == 2
\* Number of payloads passed to Enqueue in a behaviour.
MaxPayloads == 5

\* ------------------------------------------------------------- data model
FromKVStore == "kvstore"
FromAgentLocal == "agent-local"
FromKubernetes == "k8s"
Sources == {FromKVStore, FromAgentLocal, FromKubernetes}
\* A source value that equals none of the named sources.
NoSource == "unset"

Upsert == "Upsert"
Delete == "Delete"
OtherMod == "Other"

Identities == 1..MaxIdentity

\* net.IP: nil, a 4-byte address, a 16-byte IPv4-mapped address, or a
\* 16-byte address that is not IPv4.
NilIP == [fam |-> "nil", a |-> 0]
IPv4(n) == [fam |-> "v4", a |-> n]
IPv4in6(n) == [fam |-> "v4in6", a |-> n]
IPv6(n) == [fam |-> "v6", a |-> n]
HostIPs == {NilIP} \cup {IPv4(n) : n \in 1..MaxAddr} \cup {IPv4in6(MaxAddr), IPv6(MaxAddr)}

\* net.IP.To4: the 4-byte form, or nil when the address is not IPv4.
To4(ip) == IF ip.fam \in {"v4", "v4in6"} THEN IPv4(ip.a) ELSE NilIP

\* net.IP.Equal: an IPv4 address and its 16-byte form are equal; nil equals
\* only nil.
IPEqual(x, y) ==
  IF x.fam = "nil" \/ y.fam = "nil" THEN x.fam = y.fam
  ELSE IF x.fam = "v6" \/ y.fam = "v6" THEN x = y
  ELSE x.a = y.a

\* node.GetExternalIPv4: this node's external IPv4 address.
LocalAddr == 1
GetExternalIPv4 == IPv4(LocalAddr)

\* net.IPNet values the cache notifies about: two prefixes of the same length.
Cidrs == {[IP |-> "10.0.0.0", Mask |-> 24], [IP |-> "10.0.1.0", Mask |-> 24]}

\* ipcacheMap.NewKey and Key.String: the binary key of a prefix and the
\* canonical prefix string of a key.
NewKey(ip, mask) == [Prefixlen |-> mask, IP |-> ip]
KeyString(k) == <<k.IP, "/", k.Prefixlen>>
\* The string under which the cache stores a prefix (net.IPNet.String).
CidrString(c) == <<c.IP, "/", c.Mask>>

Keys == {NewKey(c.IP, c.Mask) : c \in Cidrs}
PrefixStrings == {CidrString(c) : c \in Cidrs}

\* Go maps as functions on the set of keys present.
MapPut(m, k, v) == [x \in (DOMAIN m) \cup {k} |-> IF x = k THEN v ELSE m[x]]
MapDel(m, k) == [x \in (DOMAIN m) \ {k} |-> m[x]]
EmptyMap == [x \in {} |-> 0]

NoEvent == [modType |-> "none"]

VARIABLES
  cache,        \* ipcache.IPIdentityCache: prefix string -> Identity (its Source)
  zeroSource,   \* Source of the zero Identity a lookup returns for an absent prefix
  bpfMap,       \* l.bpfMap: key -> RemoteEndpointInfo
  origin,       \* history: keys of bpfMap whose entry came from kvstore or agent-local
  mpc,          \* cache mutator: "idle" | "notified" (write lock held)
  ev,           \* the notification the listener handled last, with its outcome
  gcpc,         \* garbageCollect: "idle" | "dump" | "delete" | "returned"
  rlock,        \* the sweep holds IPIdentityCache.RLock
  visited,      \* keys DumpWithCallback has passed to the callback
  keysToRemove, \* garbageCollect's local map: prefix string -> key
  gcIssued,     \* keys for which this sweep has called bpfMap.Delete
  gcStartMap,   \* bpfMap as it was when this sweep started
  gcResult,     \* what garbageCollect returned: "none" | "ok" | "dumpErr" | "deleteErr"
  prevAborted,  \* history: keysToRemove of the sweep before, if that sweep aborted
  queue,        \* ml.queue: the payloads in the channel's buffer, oldest first
  conn,         \* ml.conn: "open" | "closed"
  cleaned,      \* ml.cleanupFn has been called
  dpc,          \* drainQueue: "recv" | "build" | "write" | "exited"
  pl,           \* the payload drainQueue has received and is handling (0: none)
  written,      \* history: the payloads whose message conn.Write has sent
  offered       \* history: the payloads passed to Enqueue

vars == <<cache, zeroSource, bpfMap, origin, mpc, ev, gcpc, rlock, visited,
          keysToRemove, gcIssued, gcStartMap, gcResult, prevAborted,
          queue, conn, cleaned, dpc, pl, written, offered>>
mlVars == <<queue, conn, cleaned, dpc, pl, written, offered>>
ipcVars == <<cache, zeroSource, bpfMap, origin, mpc, ev, gcpc, rlock, visited,
             keysToRemove, gcIssued, gcStartMap, gcResult, prevAborted>>
gcVars == <<gcpc, rlock, visited, keysToRemove, gcIssued, gcStartMap, gcResult>>

Reconcilable == {FromKVStore, FromAgentLocal}

\* The part of map m that is about the keys in S.
Restrict(m, S) == [k \in (DOMAIN m) \cap S |-> m[k]]

\* ---------------------------------------------------- Authoritative Cache
\* IPIdentityCache.LookupByPrefixRLocked: (Identity, exists); an absent
\* prefix yields the zero Identity.
LookupByPrefixRLocked(prefix) ==
  IF prefix \in DOMAIN cache
    THEN [i |-> cache[prefix], exists |-> TRUE]
    ELSE [i |-> [Source |-> zeroSource], exists |-> FALSE]

\* --------------------------------------------------------- Change Listener
\* UpsertValue without the comparison with the node's own address.
UpsertValueNoLocalCheck(newHostIP, newID) ==
  LET ip4 == To4(newHostIP)
      tunnel == IF newHostIP # NilIP /\ ip4 # NilIP THEN ip4.a ELSE 0
  IN [SecurityIdentity |-> newID, TunnelEndpoint |-> tunnel]

\* The value OnIPIdentityCacheChange builds for an Upsert.
UpsertValue(newHostIP, newID) ==
  LET ip4 == To4(newHostIP)
      tunnel == IF newHostIP # NilIP /\ ip4 # NilIP /\ ~IPEqual(ip4, GetExternalIPv4)
                  THEN ip4.a ELSE 0
  IN [SecurityIdentity |-> newID, TunnelEndpoint |-> tunnel]

\* OnIPIdentityCacheChange whose Upsert removes an entry that is already there
\* instead of replacing it.
OnIPIdentityCacheChangeNoReplace(m, modType, cidr, oldHostIP, newHostIP, oldID, newID, failed) ==
  LET key == [Prefixlen |-> cidr.Mask, IP |-> cidr.IP]
  IN CASE modType = Upsert ->
            IF failed THEN m
            ELSE IF key \in DOMAIN m
                   THEN MapDel(m, key)
                   ELSE MapPut(m, key, UpsertValue(newHostIP, newID))
       [] modType = Delete -> IF failed THEN m ELSE MapDel(m, key)
       [] OTHER -> m

\* OnIPIdentityCacheChange whose Delete matches keys by prefix length alone.
OnIPIdentityCacheChangeDeleteByMask(m, modType, cidr, oldHostIP, newHostIP, oldID, newID, failed) ==
  LET key == [Prefixlen |-> cidr.Mask, IP |-> cidr.IP]
  IN CASE modType = Upsert ->
            IF failed THEN m ELSE MapPut(m, key, UpsertValue(newHostIP, newID))
       [] modType = Delete ->
            IF failed THEN m ELSE [k \in {x \in DOMAIN m : x.Prefixlen # key.Prefixlen} |-> m[k]]
       [] OTHER -> m

\* OnIPIdentityCacheChange that repeats a failed map operation until it succeeds.
OnIPIdentityCacheChangeRetry(m, modType, cidr, oldHostIP, newHostIP, oldID, newID, failed) ==
  LET key == [Prefixlen |-> cidr.Mask, IP |-> cidr.IP]
  IN CASE modType = Upsert -> MapPut(m, key, UpsertValue(newHostIP, newID))
       [] modType = Delete -> MapDel(m, key)
       [] OTHER -> m

\* OnIPIdentityCacheChange whose switch falls through to Delete for any kind
\* that is not Upsert.
OnIPIdentityCacheChangeDefaultDeletes(m, modType, cidr, oldHostIP, newHostIP, oldID, newID, failed) ==
  LET key == [Prefixlen |-> cidr.Mask, IP |-> cidr.IP]
  IN CASE modType = Upsert ->
            IF failed THEN m ELSE MapPut(m, key, UpsertValue(newHostIP, newID))
       [] OTHER -> IF failed THEN m ELSE MapDel(m, key)

\* OnIPIdentityCacheChange whose Upsert writes into the entry that is there:
\* a zero tunnel endpoint does not overwrite the one stored.
OnIPIdentityCacheChangeMerge(m, modType, cidr, oldHostIP, newHostIP, oldID, newID, failed) ==
  LET key == [Prefixlen |-> cidr.Mask, IP |-> cidr.IP]
      v == UpsertValue(newHostIP, newID)
  IN CASE modType = Upsert ->
            IF failed THEN m
            ELSE IF key \in DOMAIN m /\ v.TunnelEndpoint = 0
                   THEN MapPut(m, key, [v EXCEPT !.TunnelEndpoint = m[key].TunnelEndpoint])
                   ELSE MapPut(m, key, v)
       [] modType = Delete -> IF failed THEN m ELSE MapDel(m, key)
       [] OTHER -> m

\* OnIPIdentityCacheChange: the Backing Table after the notification; failed
\* says whether the one map operation it issues returned an error.
OnIPIdentityCacheChange(m, modType, cidr, oldHostIP, newHostIP, oldID, newID, failed) ==
  LET key == NewKey(cidr.IP, cidr.Mask)
  IN CASE modType = Upsert -> IF failed THEN m ELSE MapPut(m, key, UpsertValue(newHostIP, newID))
       [] modType = Delete -> IF failed THEN m ELSE MapDel(m, key)
       [] OTHER -> m

\* The number of map operations OnIPIdentityCacheChange issues for a
\* notification: one Update, one Delete, or none.
ListenerOps(modType) ==
  CASE modType = Upsert -> 1
    [] modType = Delete -> 1
    [] OTHER -> 0

\* ipcacheMap.RemoteEndpointInfo values (TunnelEndpoint 0 is the all-zero
\* address) a listener of an earlier run of the agent can have left in the map.
PersistedValues == {UpsertValue(h, id) : h \in HostIPs, id \in Identities}

\* newListenerv1_0: an open connection, an empty channel of capacity
\* QueueSize, and drainQueue started, about to receive.
newListenerv1_0 ==
  /\ queue = <<>>
  /\ conn = "open"
  /\ cleaned = FALSE
  /\ dpc = "recv"
  /\ pl = 0
  /\ written = <<>>
  /\ offered = <<>>

Init ==
  /\ cache = EmptyMap
  /\ zeroSource \in Sources \cup {NoSource}
  /\ \E present \in SUBSET Keys : bpfMap \in [present -> PersistedValues]
  /\ origin \in SUBSET (DOMAIN bpfMap)
  /\ mpc = "idle"
  /\ ev = NoEvent
  /\ gcpc = "idle"
  /\ rlock = FALSE
  /\ visited = {}
  /\ keysToRemove = EmptyMap
  /\ gcIssued = {}
  /\ gcStartMap = EmptyMap
  /\ gcResult = "none"
  /\ prevAborted = EmptyMap
  /\ newListenerv1_0

\* A cache mutation under the cache's write lock, with the in-line listener
\* callback.
CacheUpsert(cidr, oldHostIP, newHostIP, oldID, newID, src, failed) ==
  /\ mpc = "idle" /\ gcpc # "returned" /\ ~rlock
  /\ cache' = MapPut(cache, CidrString(cidr), [Source |-> src])
  /\ bpfMap' = OnIPIdentityCacheChange(bpfMap, Upsert, cidr, oldHostIP, newHostIP,
                                       oldID, newID, failed)
  /\ origin' = IF failed THEN origin
               ELSE (origin \ {NewKey(cidr.IP, cidr.Mask)})
                    \cup (IF src \in Reconcilable THEN {NewKey(cidr.IP, cidr.Mask)} ELSE {})
  /\ ev' = [modType |-> Upsert, cidr |-> cidr, newHostIP |-> newHostIP,
            newID |-> newID, failed |-> failed, ops |-> ListenerOps(Upsert),
            src |-> src]
  /\ mpc' = "notified"
  /\ prevAborted' = EmptyMap
  /\ UNCHANGED <<zeroSource, mlVars, gcVars>>

CacheDelete(cidr, oldHostIP, oldID, failed) ==
  /\ mpc = "idle" /\ gcpc # "returned" /\ ~rlock
  /\ cache' = MapDel(cache, CidrString(cidr))
  /\ bpfMap' = OnIPIdentityCacheChange(bpfMap, Delete, cidr, oldHostIP, NilIP,
                                       oldID, 0, failed)
  /\ origin' = origin \cap DOMAIN bpfMap'
  /\ ev' = [modType |-> Delete, cidr |-> cidr, newHostIP |-> NilIP,
            newID |-> 0, failed |-> failed, ops |-> ListenerOps(Delete),
            src |-> IF CidrString(cidr) \in DOMAIN cache
                      THEN cache[CidrString(cidr)].Source
                      ELSE NoSource]
  /\ mpc' = "notified"
  /\ prevAborted' = EmptyMap
  /\ UNCHANGED <<zeroSource, mlVars, gcVars>>

\* A notification of a kind that is neither Upsert nor Delete.
CacheOther(cidr, newHostIP, newID) ==
  /\ mpc = "idle" /\ gcpc # "returned" /\ ~rlock
  /\ bpfMap' = OnIPIdentityCacheChange(bpfMap, OtherMod, cidr, NilIP, newHostIP,
                                       0, newID, FALSE)
  /\ ev' = [modType |-> OtherMod, cidr |-> cidr, newHostIP |-> newHostIP,
            newID |-> newID, failed |-> FALSE, ops |-> ListenerOps(OtherMod),
            src |-> NoSource]
  /\ mpc' = "notified"
  /\ UNCHANGED <<cache, zeroSource, mlVars, prevAborted, origin, gcVars>>

\* The mutator returns from the callback and releases the write lock.
MutatorReturn ==
  /\ mpc = "notified"
  /\ mpc' = "idle"
  /\ ev' = NoEvent
  /\ UNCHANGED <<cache, zeroSource, mlVars, prevAborted, bpfMap, origin, gcVars>>

\* ------------------------------------------------ Reconciliation Controller
\* The callback without the switch on the Source: every absent prefix is marked.
updateStaleEntriesAnySource(ktr, k) ==
  IF KeyString(k) \notin DOMAIN cache THEN MapPut(ktr, KeyString(k), k) ELSE ktr

\* The callback without the test of exists: the Source alone decides.
updateStaleEntriesIgnoreExists(ktr, k) ==
  IF (IF KeyString(k) \in DOMAIN cache THEN cache[KeyString(k)].Source ELSE zeroSource)
       \in {FromKVStore, FromAgentLocal}
    THEN MapPut(ktr, KeyString(k), k)
    ELSE ktr

\* The callback with the FromAgentLocal case missing from the switch.
updateStaleEntriesKVStoreOnly(ktr, k) ==
  IF KeyString(k) \notin DOMAIN cache /\ zeroSource = FromKVStore
    THEN MapPut(ktr, KeyString(k), k)
    ELSE ktr

\* The DumpCallback updateStaleEntriesFunction(keysToRemove) returns, applied
\* to one key of the map: keysToRemove after the call.
updateStaleEntriesFunction(ktr, k) ==
  LET keyToIP == KeyString(k)
      r == LookupByPrefixRLocked(keyToIP)
  IN IF ~r.exists /\ r.i.Source \in {FromKVStore, FromAgentLocal}
       THEN MapPut(ktr, keyToIP, k)
       ELSE ktr

\* DumpWithCallback run to its end over the keys todo of the map, with the
\* callback updateStaleEntriesFunction(ktr): keysToRemove after the scan.
RECURSIVE DumpWithCallback(_, _)
DumpWithCallback(todo, ktr) ==
  IF todo = {} THEN ktr
  ELSE LET k == CHOOSE x \in todo : TRUE
       IN DumpWithCallback(todo \ {k}, updateStaleEntriesFunction(ktr, k))

\* The delete loop of garbageCollect run to its end without an error: the
\* map without the keys of ktr.
RECURSIVE DeleteAll(_, _)
DeleteAll(m, ktr) ==
  IF DOMAIN ktr = {} THEN m
  ELSE LET p == CHOOSE x \in DOMAIN ktr : TRUE
       IN DeleteAll(MapDel(m, ktr[p]), MapDel(ktr, p))

\* The map a call of garbageCollect that returns nil leaves, started on map
\* m with the cache as it is.
garbageCollect(m) == DeleteAll(m, DumpWithCallback(DOMAIN m, EmptyMap))

\* GCStart with keysToRemove kept from the invocation before.
GCStartResumes ==
  /\ gcpc = "idle" /\ mpc = "idle"
  /\ gcpc' = "dump"
  /\ rlock' = TRUE
  /\ keysToRemove' = prevAborted
  /\ visited' = {}
  /\ gcIssued' = {}
  /\ gcStartMap' = bpfMap
  /\ gcResult' = "none"
  /\ UNCHANGED <<cache, zeroSource, mlVars, prevAborted, bpfMap, origin, mpc, ev>>

\* GCStart without the RLock call: the sweep runs unlocked.
GCStartNoLock ==
  /\ gcpc = "idle" /\ mpc = "idle"
  /\ gcpc' = "dump"
  /\ rlock' = FALSE
  /\ keysToRemove' = EmptyMap
  /\ visited' = {}
  /\ gcIssued' = {}
  /\ gcStartMap' = bpfMap
  /\ gcResult' = "none"
  /\ UNCHANGED <<cache, zeroSource, mlVars, prevAborted, bpfMap, origin, mpc, ev>>

\* garbageCollect is entered: RLock, the deferred RUnlock, an empty
\* keysToRemove, and DumpWithCallback starts.
GCStart ==
  /\ gcpc = "idle" /\ mpc = "idle"
  /\ gcpc' = "dump"
  /\ rlock' = TRUE
  /\ keysToRemove' = EmptyMap
  /\ visited' = {}
  /\ gcIssued' = {}
  /\ gcStartMap' = bpfMap
  /\ gcResult' = "none"
  /\ UNCHANGED <<cache, zeroSource, mlVars, prevAborted, bpfMap, origin, mpc, ev>>

\* DumpVisit whose callback deletes the stale entry from the map at once.
DumpVisitDeletes(k) ==
  /\ gcpc = "dump"
  /\ k \in (DOMAIN bpfMap) \ visited
  /\ visited' = visited \cup {k}
  /\ keysToRemove' = updateStaleEntriesFunction(keysToRemove, k)
  /\ bpfMap' = IF KeyString(k) \in DOMAIN keysToRemove' THEN MapDel(bpfMap, k) ELSE bpfMap
  /\ origin' = origin \cap DOMAIN bpfMap'
  /\ UNCHANGED <<cache, zeroSource, mlVars, prevAborted, mpc, ev, gcpc, rlock, gcIssued, gcStartMap, gcResult>>

\* DumpWithCallback passes the next entry to the callback.
DumpVisit(k) ==
  /\ gcpc = "dump"
  /\ k \in (DOMAIN bpfMap) \ visited
  /\ visited' = visited \cup {k}
  /\ keysToRemove' = updateStaleEntriesFunction(keysToRemove, k)
  /\ UNCHANGED <<cache, zeroSource, mlVars, prevAborted, bpfMap, origin, mpc, ev, gcpc, rlock, gcIssued,
                 gcStartMap, gcResult>>

\* DumpFail with the error of DumpWithCallback only logged: the marked keys are
\* deleted before garbageCollect returns the error.
DumpFailDeletesMarked ==
  /\ gcpc = "dump"
  /\ gcpc' = "returned"
  /\ gcResult' = "dumpErr"
  /\ rlock' = FALSE
  /\ bpfMap' = [k \in {x \in DOMAIN bpfMap : KeyString(x) \notin DOMAIN keysToRemove} |-> bpfMap[k]]
  /\ origin' = origin \cap DOMAIN bpfMap'
  /\ UNCHANGED <<cache, zeroSource, mlVars, prevAborted, mpc, ev, visited, keysToRemove, gcIssued, gcStartMap>>

\* DumpWithCallback returns an error: garbageCollect returns it, and the
\* deferred RUnlock runs.
DumpFail ==
  /\ gcpc = "dump"
  /\ gcpc' = "returned"
  /\ gcResult' = "dumpErr"
  /\ rlock' = FALSE
  /\ UNCHANGED <<cache, zeroSource, mlVars, prevAborted, bpfMap, origin, mpc, ev, visited, keysToRemove,
                 gcIssued, gcStartMap>>

\* DumpDone with the read lock released between the scan and the deletes.
DumpDoneUnlock ==
  /\ gcpc = "dump"
  /\ visited = DOMAIN bpfMap
  /\ gcpc' = "delete"
  /\ rlock' = FALSE
  /\ UNCHANGED <<cache, zeroSource, mlVars, prevAborted, bpfMap, origin, mpc, ev, visited, keysToRemove,
                 gcIssued, gcStartMap, gcResult>>

\* DumpDone with a scan that can end before it has visited every entry.
DumpDoneEarly ==
  /\ gcpc = "dump"
  /\ gcpc' = "delete"
  /\ UNCHANGED <<cache, zeroSource, mlVars, prevAborted, bpfMap, origin, mpc, ev, rlock, visited,
                 keysToRemove, gcIssued, gcStartMap, gcResult>>

\* DumpWithCallback has visited every entry and returns nil.
DumpDone ==
  /\ gcpc = "dump"
  /\ visited = DOMAIN bpfMap
  /\ gcpc' = "delete"
  /\ UNCHANGED <<cache, zeroSource, mlVars, prevAborted, bpfMap, origin, mpc, ev, rlock, visited, keysToRemove,
                 gcIssued, gcStartMap, gcResult>>

\* GCDelete that records a failing delete and goes on with the loop.
GCDeleteContinue(p, failed) ==
  /\ gcpc = "delete"
  /\ p \in DOMAIN keysToRemove
  /\ keysToRemove[p] \notin gcIssued
  /\ gcIssued' = gcIssued \cup {keysToRemove[p]}
  /\ IF failed
       THEN /\ gcResult' = "deleteErr"
            /\ UNCHANGED <<bpfMap, origin>>
       ELSE /\ bpfMap' = MapDel(bpfMap, keysToRemove[p])
            /\ origin' = origin \ {keysToRemove[p]}
            /\ UNCHANGED gcResult
  /\ UNCHANGED <<cache, zeroSource, mlVars, prevAborted, mpc, ev, visited, keysToRemove, gcStartMap, gcpc, rlock>>

\* GCDelete with RUnlock called at the end of the function instead of
\* deferred: the return on a failing delete leaves the read lock held.
GCDeleteNoUnlock(p, failed) ==
  /\ gcpc = "delete"
  /\ p \in DOMAIN keysToRemove
  /\ keysToRemove[p] \notin gcIssued
  /\ gcIssued' = gcIssued \cup {keysToRemove[p]}
  /\ IF failed
       THEN /\ gcpc' = "returned"
            /\ gcResult' = "deleteErr"
            /\ UNCHANGED <<bpfMap, origin, rlock>>
       ELSE /\ bpfMap' = MapDel(bpfMap, keysToRemove[p])
            /\ origin' = origin \ {keysToRemove[p]}
            /\ UNCHANGED <<gcpc, gcResult, rlock>>
  /\ UNCHANGED <<cache, zeroSource, mlVars, prevAborted, mpc, ev, visited, keysToRemove, gcStartMap>>

\* One iteration of the loop over keysToRemove: bpfMap.Delete(k); an error
\* makes garbageCollect return it, and the deferred RUnlock runs.
GCDelete(p, failed) ==
  /\ gcpc = "delete"
  /\ p \in DOMAIN keysToRemove
  /\ keysToRemove[p] \notin gcIssued
  /\ gcIssued' = gcIssued \cup {keysToRemove[p]}
  /\ IF failed
       THEN /\ gcpc' = "returned"
            /\ gcResult' = "deleteErr"
            /\ rlock' = FALSE
            /\ UNCHANGED <<bpfMap, origin>>
       ELSE /\ bpfMap' = MapDel(bpfMap, keysToRemove[p])
            /\ origin' = origin \ {keysToRemove[p]}
            /\ UNCHANGED <<gcpc, gcResult, rlock>>
  /\ UNCHANGED <<cache, zeroSource, mlVars, prevAborted, mpc, ev, visited, keysToRemove, gcStartMap>>

\* The loop is over: garbageCollect returns nil, and the deferred RUnlock runs.
GCReturn ==
  /\ gcpc = "delete"
  /\ \A p \in DOMAIN keysToRemove : keysToRemove[p] \in gcIssued
  /\ gcpc' = "returned"
  /\ gcResult' = "ok"
  /\ rlock' = FALSE
  /\ UNCHANGED <<cache, zeroSource, mlVars, prevAborted, bpfMap, origin, mpc, ev, visited, keysToRemove,
                 gcIssued, gcStartMap>>

\* The controller takes garbageCollect's result and waits for the next run;
\* the locals of the finished invocation are gone.
ControllerWait ==
  /\ gcpc = "returned"
  /\ gcpc' = "idle"
  /\ keysToRemove' = EmptyMap
  /\ visited' = {}
  /\ gcIssued' = {}
  /\ gcStartMap' = EmptyMap
  /\ gcResult' = "none"
  /\ prevAborted' = IF gcResult \in {"dumpErr", "deleteErr"} THEN keysToRemove ELSE EmptyMap
  /\ UNCHANGED <<cache, zeroSource, mlVars, bpfMap, origin, mpc, ev, rlock>>

Next ==
  \/ \E c \in Cidrs, h \in HostIPs, id \in Identities, s \in Sources :
       CacheUpsert(c, NilIP, h, 0, id, s, FALSE)
  \/ \E c \in Cidrs, s \in Sources :
       CacheUpsert(c, NilIP, IPv4(MaxAddr), 0, MaxIdentity, s, TRUE)
  \/ \E c \in Cidrs, f \in BOOLEAN : CacheDelete(c, NilIP, 0, f)
  \/ \E c \in Cidrs : CacheOther(c, IPv4(MaxAddr), MaxIdentity)
  \/ MutatorReturn
  \/ GCStart
  \/ \E k \in Keys : DumpVisit(k)
  \/ DumpFail
  \/ DumpDone
  \/ \E p \in PrefixStrings, f \in BOOLEAN : GCDelete(p, f)
  \/ GCReturn
  \/ ControllerWait

Spec == Init /\ [][Next]_vars

\* The controller runs garbageCollect again and again, each step of a run is
\* taken, and a mutator that holds the write lock releases it.
FairSpec ==
  /\ Spec
  /\ SF_vars(GCStart)
  /\ WF_vars(\E k \in Keys : DumpVisit(k))
  /\ WF_vars(DumpDone)
  /\ WF_vars(\E p \in PrefixStrings : GCDelete(p, FALSE))
  /\ WF_vars(GCReturn)
  /\ WF_vars(ControllerWait)
  /\ WF_vars(MutatorReturn)

\* -------------------------------------------------------- Monitor listener
\* Enqueue with a full channel making room by dropping its oldest payload.
EnqueueEvictsOldest(p) ==
  /\ Len(offered) < MaxPayloads
  /\ p = Len(offered) + 1
  /\ offered' = Append(offered, p)
  /\ queue' = IF Len(queue) < QueueSize THEN Append(queue, p)
               ELSE Append(Tail(queue), p)
  /\ UNCHANGED <<conn, cleaned, dpc, pl, written, ipcVars>>

\* Enqueue(pl): select with a send on ml.queue and a default case. The send
\* is taken when the channel has room; otherwise the payload is dropped.
\* Payloads are numbered in the order of the calls.
Enqueue(p) ==
  /\ Len(offered) < MaxPayloads
  /\ p = Len(offered) + 1
  /\ offered' = Append(offered, p)
  /\ queue' = IF Len(queue) < QueueSize THEN Append(queue, p) ELSE queue
  /\ UNCHANGED <<conn, cleaned, dpc, pl, written, ipcVars>>

\* drainQueue: for pl := range ml.queue receives the oldest payload.
DrainReceive ==
  /\ dpc = "recv"
  /\ queue # <<>>
  /\ pl' = Head(queue)
  /\ queue' = Tail(queue)
  /\ dpc' = "build"
  /\ UNCHANGED <<conn, cleaned, written, offered, ipcVars>>

\* pl.BuildMessage(): on an error the payload is skipped (continue).
BuildMessage(ok) ==
  /\ dpc = "build"
  /\ IF ok THEN dpc' = "write" /\ pl' = pl
           ELSE dpc' = "recv" /\ pl' = 0
  /\ UNCHANGED <<queue, conn, cleaned, written, offered, ipcVars>>

\* ml.conn.Write(buf): on an error drainQueue returns and its deferred
\* function closes the connection and calls cleanupFn.
ConnWrite(ok) ==
  /\ dpc = "write"
  /\ pl' = 0
  /\ IF ok
       THEN /\ written' = Append(written, pl)
            /\ dpc' = "recv"
            /\ UNCHANGED <<conn, cleaned>>
       ELSE /\ dpc' = "exited"
            /\ conn' = "closed"
            /\ cleaned' = TRUE
            /\ UNCHANGED written
  /\ UNCHANGED <<queue, offered, ipcVars>>

QueueInit ==
  /\ Init
  /\ zeroSource = NoSource
  /\ bpfMap = EmptyMap
  /\ origin = {}

QueueNext ==
  \/ \E p \in 1..MaxPayloads : Enqueue(p)
  \/ DrainReceive
  \/ \E ok \in BOOLEAN : BuildMessage(ok)
  \/ \E ok \in BOOLEAN : ConnWrite(ok)

\* The monitor listener on its own: callers of Enqueue and drainQueue.
QueueSpec == QueueInit /\ [][QueueNext]_vars

\* ================================================================= claims
\* The Source the cache's lookup gives for the prefix of key k.
LookupSource(k) ==
  IF KeyString(k) \in DOMAIN cache THEN cache[KeyString(k)].Source ELSE zeroSource

\* C1: a key whose prefix is absent from the cache from some point on, and
\* whose entry came from kvstore or agent-local, is eventually absent from
\* the Backing Table, when sweeps keep running and keep succeeding.
C1_EventualRemoval ==
  \A k \in Keys :
    ( /\ <>[](KeyString(k) \notin DOMAIN cache /\ (k \in DOMAIN bpfMap => k \in origin))
      /\ []<>(gcResult = "ok") )
    => <>(k \notin DOMAIN bpfMap)

C3_ExistingNeverMarked ==
  \A k \in visited :
    KeyString(k) \in DOMAIN cache
      => /\ KeyString(k) \notin DOMAIN keysToRemove
         /\ k \notin gcIssued
         /\ k \in DOMAIN bpfMap

C3_Witness ==
  /\ gcpc = "returned" /\ gcResult = "ok"
  /\ zeroSource = FromKVStore
  /\ gcIssued # {}
  /\ \E k \in visited :
       /\ KeyString(k) \in DOMAIN cache
       /\ cache[KeyString(k)].Source = FromKVStore
       /\ k \in DOMAIN bpfMap

\* C4: the deletion set of a sweep is exactly the scanned keys whose lookup
\* reports exists = false with a Source, in the value of that lookup, of
\* kvstore or agent-local: each under its canonical prefix string.
C4_DeletionSetExact ==
  gcpc \in {"dump", "delete", "returned"} =>
    /\ DOMAIN keysToRemove =
         { <<k.IP, "/", k.Prefixlen>> :
             k \in { x \in visited : /\ <<x.IP, "/", x.Prefixlen>> \notin DOMAIN cache
                                     /\ zeroSource \in {FromKVStore, FromAgentLocal} } }
    /\ \A p \in DOMAIN keysToRemove :
         keysToRemove[p] \in visited /\ <<keysToRemove[p].IP, "/", keysToRemove[p].Prefixlen>> = p

C4_Witness ==
  /\ gcpc = "delete"
  /\ zeroSource = FromAgentLocal
  /\ visited = Keys
  /\ Cardinality(DOMAIN keysToRemove) = 1

\* C5 as stated: no delete of a sweep is issued while the sweep holds the
\* read lock.
C5_NoDeleteUnderLock ==
  [][gcIssued' \ gcIssued # {} => ~rlock]_vars

\* C5: the read lock is held from the start of a sweep through the scan and
\* through the delete loop: every delete of a sweep is issued while the sweep
\* holds the read lock, and the lock is released when garbageCollect returns.
C5_LockHeldUntilReturn ==
  [][ /\ (gcIssued' \ gcIssued # {} => rlock)
      /\ (gcpc \in {"dump", "delete"} <=> rlock)
      /\ (gcpc' = "returned" => ~rlock') ]_vars

C5_Witness ==
  /\ gcpc = "delete" /\ rlock
  /\ gcIssued # {}
  /\ DOMAIN bpfMap # DOMAIN gcStartMap

\* C6: a sweep whose scan returned an error reports failure, has issued no
\* delete and leaves the Backing Table as it was when the sweep started, also
\* when keys had been marked before the scan failed.
C6_ScanFailureDeletesNothing ==
  gcResult = "dumpErr" =>
    /\ gcpc = "returned"
    /\ gcIssued = {}
    /\ bpfMap = gcStartMap

C6_Witness ==
  /\ gcResult = "dumpErr"
  /\ DOMAIN keysToRemove # {}
  /\ visited # DOMAIN bpfMap

\* C7: the first failing delete ends the sweep with a failure: the keys
\* deleted before it stay deleted, the failing key and the marked keys after
\* it are as they were, and no further delete is issued.
C7_FirstDeleteFailureAborts ==
  /\ gcResult = "deleteErr" =>
       /\ gcpc = "returned"
       /\ \E kf \in gcIssued :
            /\ \A k \in gcIssued \ {kf} : k \notin DOMAIN bpfMap
            /\ \A k \in (DOMAIN gcStartMap) \ (gcIssued \ {kf}) :
                 k \in DOMAIN bpfMap /\ bpfMap[k] = gcStartMap[k]
  /\ gcpc = "delete" => gcResult = "none"

C7_Witness ==
  /\ gcResult = "deleteErr"
  /\ Cardinality(gcIssued) = 2
  /\ Cardinality(DOMAIN bpfMap) = 1

\* C8: after a successful Upsert the entry at the key of the prefix has the
\* new identity, and as tunnel endpoint the 4-byte form of newHostIP when that
\* is present, narrows to 4 bytes and differs from the node's external IPv4
\* address, and the all-zero address otherwise.
C8_UpsertValue ==
  (mpc = "notified" /\ ev.modType = Upsert /\ ~ev.failed) =>
    LET key == [Prefixlen |-> ev.cidr.Mask, IP |-> ev.cidr.IP]
        h == ev.newHostIP
        narrows == h.fam \in {"v4", "v4in6"}
        isLocal == narrows /\ h.a = GetExternalIPv4.a
    IN /\ key \in DOMAIN bpfMap
       /\ bpfMap[key].SecurityIdentity = ev.newID
       /\ bpfMap[key].TunnelEndpoint =
            IF h.fam # "nil" /\ narrows /\ ~isLocal THEN h.a ELSE 0

C8_Witness ==
  /\ mpc = "notified" /\ ev.modType = Upsert /\ ~ev.failed
  /\ ev.newHostIP = IPv4in6(MaxAddr)
  /\ bpfMap[NewKey(ev.cidr.IP, ev.cidr.Mask)].TunnelEndpoint = MaxAddr

\* C9: the identical Upsert applied again to the Backing Table an Upsert has
\* produced leaves that table as it is.
C9_UpsertIdempotent ==
  (mpc = "notified" /\ ev.modType = Upsert /\ ~ev.failed) =>
    \A f \in BOOLEAN :
      OnIPIdentityCacheChange(bpfMap, Upsert, ev.cidr, NilIP, ev.newHostIP, 0,
                              ev.newID, f) = bpfMap

C9_Witness ==
  /\ mpc = "notified" /\ ev.modType = Upsert /\ ~ev.failed
  /\ ev.newHostIP = IPv4(MaxAddr)
  /\ Cardinality(DOMAIN bpfMap) = 2

\* C10: a Delete removes the entry at the key of its prefix and leaves every
\* other key and value as it was; for a key that is absent the table stays as
\* it is, and the listener returns as for any other notification.
C10_DeleteExactlyKey ==
  [][ (mpc = "idle" /\ mpc' = "notified" /\ ev'.modType = Delete) =>
        LET key == [Prefixlen |-> ev'.cidr.Mask, IP |-> ev'.cidr.IP]
        IN /\ \A k \in Keys \ {key} :
                /\ k \in DOMAIN bpfMap <=> k \in DOMAIN bpfMap'
                /\ k \in DOMAIN bpfMap => bpfMap'[k] = bpfMap[k]
           /\ ~ev'.failed => key \notin DOMAIN bpfMap'
           /\ key \notin DOMAIN bpfMap => bpfMap' = bpfMap ]_vars

C10_Witness ==
  /\ mpc = "notified" /\ ev.modType = Delete /\ ~ev.failed
  /\ NewKey(ev.cidr.IP, ev.cidr.Mask) \notin DOMAIN bpfMap
  /\ DOMAIN bpfMap # {}

\* A step in which the listener handles a notification.
ListenerStep == mpc = "idle" /\ mpc' = "notified"

\* C11: an Upsert or a Delete notification issues one map operation; when it
\* fails the table is left as it is (nothing is tried again), the cache
\* mutation stands, and the listener returns to the mutator, which goes on.
C11_OneOperationFailureSwallowed ==
  [][ (ListenerStep /\ ev'.modType \in {Upsert, Delete}) =>
        LET p == <<ev'.cidr.IP, "/", ev'.cidr.Mask>>
        IN /\ ev'.ops = 1
           /\ ev'.failed => bpfMap' = bpfMap
           /\ ev'.modType = Upsert => p \in DOMAIN cache'
           /\ ev'.modType = Delete => p \notin DOMAIN cache'
           /\ \A q \in (DOMAIN cache \cup DOMAIN cache') \ {p} :
                q \in DOMAIN cache /\ q \in DOMAIN cache' /\ cache'[q] = cache[q] ]_vars

C11_Witness ==
  /\ mpc = "notified" /\ ev.modType = Upsert /\ ev.failed
  /\ <<ev.cidr.IP, "/", ev.cidr.Mask>> \in DOMAIN cache
  /\ NewKey(ev.cidr.IP, ev.cidr.Mask) \notin DOMAIN bpfMap

\* C14: a notification that is neither Upsert nor Delete issues no map
\* operation and leaves the Backing Table as it is; the listener returns.
C14_OtherKindNoOperation ==
  [][ (ListenerStep /\ ev'.modType \notin {Upsert, Delete}) =>
        /\ bpfMap' = bpfMap
        /\ ev'.ops = 0
        /\ ~ev'.failed ]_vars

C14_Witness ==
  /\ mpc = "notified" /\ ev.modType = OtherMod
  /\ NewKey(ev.cidr.IP, ev.cidr.Mask) \in DOMAIN bpfMap

\* C15: the value a successful Upsert stores is the one the same Upsert stores
\* in an empty table, whatever was stored before and whatever the old host
\* address and old identity are; a host address that is absent or local
\* leaves a zero tunnel endpoint also where a non-zero one was stored.
C15_UpsertReplaces ==
  [][ (ListenerStep /\ ev'.modType = Upsert /\ ~ev'.failed) =>
        LET key == [Prefixlen |-> ev'.cidr.Mask, IP |-> ev'.cidr.IP]
        IN /\ {OnIPIdentityCacheChange(EmptyMap, Upsert, ev'.cidr, oh, ev'.newHostIP,
                                       oid, ev'.newID, FALSE)[key] :
                  oh \in {NilIP, IPv4(MaxAddr)}, oid \in {0, MaxIdentity}}
                = {bpfMap'[key]}
           /\ (ev'.newHostIP.fam = "nil" \/ ev'.newHostIP = GetExternalIPv4)
                => bpfMap'[key].TunnelEndpoint = 0 ]_vars

C15_Witness ==
  /\ mpc = "notified" /\ ev.modType = Upsert /\ ~ev.failed
  /\ ev.newHostIP = GetExternalIPv4
  /\ bpfMap[NewKey(ev.cidr.IP, ev.cidr.Mask)].TunnelEndpoint = 0
  /\ Cardinality(DOMAIN bpfMap) = 2

\* C17: with mutators under the write lock, a key a sweep deletes has no
\* entry in the cache at the moment of the delete: no Upsert lands between
\* the sweep's lookup of a prefix and its delete, as the cache a sweep sees
\* does not change from its start to its return.
C17_NoUpsertBetweenLookupAndDelete ==
  [][ /\ \A k \in gcIssued' \ gcIssued :
           /\ KeyString(k) \notin DOMAIN cache
           /\ KeyString(k) \notin DOMAIN cache'
      /\ gcpc \in {"dump", "delete"} => cache' = cache /\ mpc' = "idle" ]_vars

C17_Witness ==
  /\ gcpc = "delete"
  /\ gcIssued # {}
  /\ \E k \in gcIssued : k \notin DOMAIN bpfMap /\ KeyString(k) \notin DOMAIN cache
  /\ DOMAIN cache # {}

\* C18: a step of a sweep never adds a key to the Backing Table or changes a
\* value; a key it removes was visited by its scan and marked; the scan
\* itself leaves the table as it is; and every delete it issues is for a key
\* it has not issued a delete for before.
C18_SweepOnlyRemoves ==
  [][ (gcpc \in {"dump", "delete"}) =>
        /\ \A k \in DOMAIN bpfMap' : k \in DOMAIN bpfMap /\ bpfMap'[k] = bpfMap[k]
        /\ \A k \in (DOMAIN bpfMap) \ (DOMAIN bpfMap') :
             k \in visited /\ KeyString(k) \in DOMAIN keysToRemove
        /\ (gcpc = "dump") => (bpfMap' = bpfMap /\ gcIssued' = {})
        /\ (gcpc = "delete" /\ gcResult' # "ok") =>
             (/\ Cardinality(gcIssued' \ gcIssued) = 1
              /\ gcIssued \subseteq gcIssued'
              /\ Cardinality((DOMAIN bpfMap) \ (DOMAIN bpfMap')) \in {0, 1}) ]_vars

C18_Witness ==
  /\ gcpc = "returned" /\ gcResult = "ok"
  /\ Cardinality(gcIssued) = 2
  /\ bpfMap = EmptyMap
  /\ Cardinality(DOMAIN gcStartMap) = 2

\* C19: whenever garbageCollect is not running, after a return of nil, of a
\* scan error or of a delete error, the sweep holds no read lock.
C19_LockReleasedOnEveryReturn ==
  /\ gcpc \in {"idle", "returned"} => ~rlock
  /\ gcpc = "returned" => gcResult \in {"ok", "dumpErr", "deleteErr"}

C19_Witness ==
  /\ gcpc = "returned" /\ gcResult = "deleteErr"
  /\ ~rlock

\* The Backing Table m agrees with the cache on the prefix of notification e,
\* the cache holding what e made of it.
Agrees(m, e) ==
  LET key == NewKey(e.cidr.IP, e.cidr.Mask)
  IN IF e.modType = Upsert
       THEN key \in DOMAIN m /\ m[key] = UpsertValue(e.newHostIP, e.newID)
       ELSE key \notin DOMAIN m

\* C12: when the listener's write for an Upsert or a Delete of a prefix
\* whose entry comes from kvstore or agent-local has failed and the Backing
\* Table disagrees with the cache on that prefix, the next sweep, run with
\* no cache mutation before it and returning nil, leaves the Backing Table
\* in agreement with the cache on that prefix.
C12_SweepRepairsFailedWrite ==
  ( /\ mpc = "notified"
    /\ ev.modType \in {Upsert, Delete}
    /\ ev.failed
    /\ ev.src \in Reconcilable
    /\ ~Agrees(bpfMap, ev) )
  => Agrees(garbageCollect(bpfMap), ev)

\* The scan of the running or returned sweep went through the whole map.
ScanComplete == gcpc \in {"delete", "returned"} /\ gcResult # "dumpErr"

\* The deletion set the next sweep computes when no cache mutation and no
\* listener write comes before it.
NextDeletionSet == DumpWithCallback(DOMAIN bpfMap, EmptyMap)

\* C13 as stated: the sweep after a sweep, with no cache mutation and no
\* listener write between the two, computes the deletion set the first one
\* computed.
C13_IdenticalDeletionSets ==
  (gcpc = "returned" /\ ScanComplete) => NextDeletionSet = keysToRemove

\* C13: of two consecutive sweeps with complete scans and no cache mutation
\* and no listener write between them, the second computes the deletion set
\* of the first without the keys the first has deleted; the two sets are
\* equal when the first sweep deleted nothing, and both are empty when the
\* zero Identity's Source is neither kvstore nor agent-local. A sweep's
\* deletion set and, when it returns nil, the map it leaves are functions of
\* the cache and the map it started on.
C13_DeletionSetMinusDeleted ==
  /\ ScanComplete => keysToRemove = DumpWithCallback(DOMAIN gcStartMap, EmptyMap)
  /\ (gcpc = "returned" /\ gcResult = "ok") => bpfMap = garbageCollect(gcStartMap)
  /\ (gcpc = "returned" /\ ScanComplete) =>
       /\ NextDeletionSet =
            Restrict(keysToRemove, {p \in DOMAIN keysToRemove : keysToRemove[p] \in DOMAIN bpfMap})
       /\ (DOMAIN bpfMap = DOMAIN gcStartMap) => NextDeletionSet = keysToRemove
       /\ zeroSource \notin Reconcilable =>
            NextDeletionSet = EmptyMap /\ keysToRemove = EmptyMap

C13_Witness ==
  /\ gcpc = "returned" /\ gcResult = "ok"
  /\ keysToRemove # EmptyMap
  /\ NextDeletionSet = EmptyMap
  /\ DOMAIN cache # {}

\* C16: an invocation of garbageCollect starts with an empty keysToRemove
\* and a scan that has visited nothing, whatever the invocation before left;
\* every delete it issues is for a key its own scan has visited and marked;
\* a scan step visits a key not visited before, a delete step takes a key
\* not taken before, and once the invocation has returned nothing more is
\* done until the controller starts the next one.
C16_FreshScanNoRetry ==
  [][ /\ (gcpc = "idle" /\ gcpc' # "idle") =>
           /\ gcpc' = "dump"
           /\ keysToRemove' = EmptyMap /\ visited' = {} /\ gcIssued' = {}
      /\ \A k \in gcIssued' \ gcIssued :
           /\ k \in visited
           /\ KeyString(k) \in DOMAIN keysToRemove
           /\ keysToRemove[KeyString(k)] = k
      /\ (gcpc = "dump" /\ gcpc' = "dump") =>
           (visited \subseteq visited' /\ visited # visited')
      /\ (gcpc = "delete" /\ gcpc' = "delete") =>
           (gcIssued \subseteq gcIssued' /\ gcIssued # gcIssued')
      /\ gcpc = "returned" => (gcpc' = "idle" /\ bpfMap' = bpfMap) ]_vars

C16_Witness ==
  /\ gcpc = "returned" /\ gcResult = "ok"
  /\ \E p \in DOMAIN prevAborted :
       /\ prevAborted[p] \in DOMAIN gcStartMap
       /\ p \in DOMAIN keysToRemove
       /\ prevAborted[p] \in gcIssued
       /\ prevAborted[p] \notin DOMAIN bpfMap

\* a is b with some of its elements left out, the order kept.
RECURSIVE IsSubseq(_, _)
IsSubseq(a, b) ==
  IF a = <<>> THEN TRUE
  ELSE IF b = <<>> THEN FALSE
  ELSE IF Head(a) = Head(b) THEN IsSubseq(Tail(a), Tail(b))
  ELSE IsSubseq(a, Tail(b))

\* The payloads written, being handled and queued, oldest first.
Pipeline == written \o (IF pl = 0 THEN <<>> ELSE <<pl>>) \o queue

\* C20: a call of Enqueue can always be taken, whatever the channel holds
\* and whether drainQueue runs or has exited; the channel never holds more
\* than QueueSize payloads; a call on a full channel leaves the channel as
\* it is, and a call on a channel with room appends its payload; the
\* payloads written, followed by the one being handled and the queued ones,
\* are in the order of the calls of Enqueue, each at most once; and once
\* drainQueue has exited it has closed the connection and called cleanupFn,
\* and writes nothing more.
C20_QueueBoundedFifoNonBlocking ==
  /\ [](Len(offered) < MaxPayloads => ENABLED Enqueue(Len(offered) + 1))
  /\ [](Len(queue) <= QueueSize)
  /\ [](IsSubseq(Pipeline, offered))
  /\ [](dpc = "exited" => conn = "closed" /\ cleaned /\ pl = 0)
  /\ [][ /\ (offered' # offered /\ Len(queue) = QueueSize) => queue' = queue
         /\ (offered' # offered /\ Len(queue) < QueueSize) =>
              queue' = Append(queue, offered'[Len(offered')])
         /\ dpc = "exited" => written' = written /\ dpc' = "exited" ]_vars

C20_Witness ==
  /\ dpc = "exited"
  /\ written # <<>>
  /\ Len(queue) = QueueSize
  /\ offered[Len(offered)] # queue[Len(queue)]
  /\ Len(Pipeline) < Len(offered)
====
